---------------------------- MODULE Spec2Model ----------------------------
(* A model of RepoSpector.py: the GitHubAnalyzer class (one authenticated  *)
(* client handle, ten checks, the reporter and its remediation tickets)    *)
(* and the run of report_findings started by the script's main block.      *)
(*                                                                         *)
(* Text is modelled character by character on TLA+ strings: lower(), the   *)
(* `in` substring test, ', '.join, str() of a count, string comparison and *)
(* base64 decoding are computed, not assumed.  Texts are ASCII.            *)
EXTENDS Integers, Sequences, FiniteSets, TLC

-----------------------------------------------------------------------------
(* Python text primitives                                                  *)

\* The printable ASCII characters in code-point order: 32..95 and 97..126
\* (code point 96, the grave accent, cannot be written in a TLA+ string and
\* occurs in no text of the model).
AsciiLow == " !\"#$%&'()*+,-./0123456789:;<=>?@ABCDEFGHIJKLMNOPQRSTUVWXYZ[\\]^_"

AsciiHigh == "abcdefghijklmnopqrstuvwxyz{|}~"

CharAt(s, i) == SubSeq(s, i, i)

chr(n) == IF n <= 95 THEN CharAt(AsciiLow, n - 31) ELSE CharAt(AsciiHigh, n - 96)

CodePoints == (32..95) \cup (97..126)

AsciiChars == {chr(n) : n \in CodePoints}

OrdTable == [c \in AsciiChars |-> CHOOSE n \in CodePoints : chr(n) = c]

ord(c) == OrdTable[c]

\* str.lower() on one character: 'A'..'Z' map to 'a'..'z', the rest is kept.
lower_char(c) == IF ord(c) >= 65 /\ ord(c) <= 90 THEN chr(ord(c) + 32) ELSE c

\* str.lower()
lower(s) ==
  LET f[i \in 0..Len(s)] == IF i = 0 THEN "" ELSE f[i - 1] \o lower_char(CharAt(s, i))
  IN  f[Len(s)]

\* Python's `sub in s` on strings: sub occurs in s as a contiguous substring.
contains(sub, s) ==
  \E i \in 1..(Len(s) - Len(sub) + 1) : SubSeq(s, i, i + Len(sub) - 1) = sub

\* sep.join(parts)
join(sep, parts) ==
  LET f[i \in 0..Len(parts)] ==
        IF i = 0 THEN ""
        ELSE IF i = 1 THEN parts[1]
        ELSE f[i - 1] \o sep \o parts[i]
  IN  f[Len(parts)]

\* Python's a < b on strings: lexicographic by code point, a proper prefix first.
str_less(a, b) ==
  \E i \in 1..Len(b) :
     /\ i <= Len(a) + 1
     /\ \A j \in 1..(i - 1) : CharAt(a, j) = CharAt(b, j)
     /\ \/ i = Len(a) + 1
        \/ ord(CharAt(a, i)) < ord(CharAt(b, i))

\* str(n) as used by an f-string on a non-negative int
str(n) == ToString(n)

\* The base64 alphabet; a character's value is its position minus one.
B64Alphabet == "ABCDEFGHIJKLMNOPQRSTUVWXYZabcdefghijklmnopqrstuvwxyz0123456789+/"

B64Chars == {CharAt(B64Alphabet, i) : i \in 1..Len(B64Alphabet)}

B64Table == [c \in B64Chars |-> (CHOOSE i \in 1..Len(B64Alphabet) : CharAt(B64Alphabet, i) = c) - 1]

\* One group of four base64 characters decodes to three bytes, fewer when the
\* group ends in '=' padding; each byte is then decoded as one ASCII character.
b64group(g) ==
  LET v(i) == IF CharAt(g, i) = "=" THEN 0 ELSE B64Table[CharAt(g, i)]
      n    == ((v(1) * 64 + v(2)) * 64 + v(3)) * 64 + v(4)
      b1   == n \div 65536
      b2   == (n \div 256) % 256
      b3   == n % 256
  IN  IF CharAt(g, 3) = "=" THEN chr(b1)
      ELSE IF CharAt(g, 4) = "=" THEN chr(b1) \o chr(b2)
      ELSE chr(b1) \o chr(b2) \o chr(b3)

\* base64.b64decode(content).decode('utf-8') for padded ASCII content
b64decode(content) ==
  LET f[k \in 0..(Len(content) \div 4)] ==
        IF k = 0 THEN "" ELSE f[k - 1] \o b64group(SubSeq(content, 4 * k - 3, 4 * k))
  IN  f[Len(content) \div 4]

-----------------------------------------------------------------------------
(* The remote platform as seen through requests                            *)

\* A requests.Response: the status code and the decoded JSON body.
Response(status_code, json) == [status_code |-> status_code, json |-> json]

\* JSON null; falsy like None.
Null == ""

truthy(v) == v # Null

\* What a call leaves behind: the value it returns, or the exception it raises.
Return(value) == [exc |-> "none", value |-> value]

Raise(exc) == [exc |-> exc, value |-> Null]

\* requests.Response.raise_for_status(): raises HTTPError for 4xx and 5xx
\* and returns None for every other status.
raise_for_status(response) ==
  IF response.status_code >= 400 /\ response.status_code < 600
  THEN "HTTPError"
  ELSE "none"

\* GitHubAnalyzer.fetch_data applied to the response requests.get returned:
\* the JSON body on 200; otherwise whatever raise_for_status does, and when
\* that returns the function falls off its end and returns None.
fetch_data(response) ==
  IF response.status_code = 200
  THEN [exc |-> "none", is_none |-> FALSE, json |-> response.json]
  ELSE [exc |-> raise_for_status(response), is_none |-> TRUE, json |-> response.json]

\* Subscripting or iterating what fetch_data returned: TypeError on None.
unusable(data) == data.exc = "none" /\ data.is_none

-----------------------------------------------------------------------------
(* The checks, as functions of the responses the platform gives them       *)

essential_sections == <<"installation", "usage", "contributing", "license", "changelog">>

\* check_documentation as it would be with a 'not found' wording for a failed
\* fetch.
check_documentation_not_found(response) ==
  LET data == fetch_data(response)
  IN  IF data.exc = "HTTPError" THEN Return("README.md file was not found.")
      ELSE IF unusable(data) THEN Raise("TypeError")
      ELSE LET readme == b64decode(data.json.content)
               text   == lower(readme)
               absent(section) == ~contains(section, text)
               missing_sections == SelectSeq(essential_sections, absent)
           IN  IF missing_sections = <<>>
               THEN Return("README.md is present and contains all essential sections.")
               ELSE Return("README.md is present but missing sections: "
                           \o join(", ", missing_sections) \o ".")

\* check_documentation as it would be without the call of lower().
check_documentation_case_sensitive(response) ==
  LET data == fetch_data(response)
  IN  IF data.exc = "HTTPError" THEN Return("README.md file is missing.")
      ELSE IF unusable(data) THEN Raise("TypeError")
      ELSE LET readme == b64decode(data.json.content)
               absent(section) == ~contains(section, readme)
               missing_sections == SelectSeq(essential_sections, absent)
           IN  IF missing_sections = <<>>
               THEN Return("README.md is present and contains all essential sections.")
               ELSE Return("README.md is present but missing sections: "
                           \o join(", ", missing_sections) \o ".")

check_documentation(response) ==
  LET data == fetch_data(response)
  IN  IF data.exc = "HTTPError" THEN Return("README.md file is missing.")
      ELSE IF unusable(data) THEN Raise("TypeError")
      ELSE LET readme == b64decode(data.json.content)
               text   == lower(readme)
               absent(section) == ~contains(section, text)
               missing_sections == SelectSeq(essential_sections, absent)
           IN  IF missing_sections = <<>>
               THEN Return("README.md is present and contains all essential sections.")
               ELSE Return("README.md is present but missing sections: "
                           \o join(", ", missing_sections) \o ".")

\* The first position of a comment-thread fetch that raises, or 0.  items is
\* the list being walked, threads[i] the response to the i-th item's comment
\* fetch, skipped the positions of the items whose thread is not fetched.
first_failure(items, threads, skipped) ==
  LET failing(i) == /\ i \notin skipped
                    /\ \/ fetch_data(threads[i]).exc # "none"
                       \/ unusable(fetch_data(threads[i]))
      bad == {i \in 1..Len(items) : failing(i)}
  IN  IF bad = {} THEN 0 ELSE CHOOSE i \in bad : \A j \in bad : i <= j

\* The exception the failing thread fetch raises.
thread_exception(response) ==
  IF fetch_data(response).exc # "none" THEN fetch_data(response).exc ELSE "TypeError"

\* any(word in comment['body'].lower() for comment in comments)
any_comment_has(word, comments) ==
  \E k \in 1..Len(comments) : contains(word, lower(comments[k].body))

\* analyze_issues as it would be with the timestamp comparison turned round.
analyze_issues_created_before_updated(response, threads) ==
  LET data == fetch_data(response)
  IN  IF data.exc # "none" THEN Raise(data.exc)
      ELSE IF unusable(data) THEN Raise("TypeError")
      ELSE LET open_issues == data.json
               stop == first_failure(open_issues, threads, {})
               resolved(i) == any_comment_has("resolved", fetch_data(threads[i]).json)
               indices == [i \in 1..Len(open_issues) |-> i]
               unresolved(i) == ~resolved(i)
               kept == SelectSeq(indices, unresolved)
               unresolved_issues == [k \in 1..Len(kept) |-> open_issues[kept[k]]]
               inactive(issue) == str_less(issue.created_at, issue.updated_at)
               inactive_issues == SelectSeq(unresolved_issues, inactive)
           IN  IF stop # 0 THEN Raise(thread_exception(threads[stop]))
               ELSE IF unresolved_issues = <<>> THEN Return("No unresolved open issues.")
               ELSE IF inactive_issues # <<>>
               THEN Return("Found " \o str(Len(unresolved_issues))
                           \o " unresolved open issues, including "
                           \o str(Len(inactive_issues)) \o " with long inactivity.")
               ELSE Return("Found " \o str(Len(unresolved_issues)) \o " unresolved open issues.")

analyze_issues(response, threads) ==
  LET data == fetch_data(response)
  IN  IF data.exc # "none" THEN Raise(data.exc)
      ELSE IF unusable(data) THEN Raise("TypeError")
      ELSE LET open_issues == data.json
               stop == first_failure(open_issues, threads, {})
               resolved(i) == any_comment_has("resolved", fetch_data(threads[i]).json)
               indices == [i \in 1..Len(open_issues) |-> i]
               unresolved(i) == ~resolved(i)
               kept == SelectSeq(indices, unresolved)
               unresolved_issues == [k \in 1..Len(kept) |-> open_issues[kept[k]]]
               inactive(issue) == str_less(issue.updated_at, issue.created_at)
               inactive_issues == SelectSeq(unresolved_issues, inactive)
           IN  IF stop # 0 THEN Raise(thread_exception(threads[stop]))
               ELSE IF unresolved_issues = <<>> THEN Return("No unresolved open issues.")
               ELSE IF inactive_issues # <<>>
               THEN Return("Found " \o str(Len(unresolved_issues))
                           \o " unresolved open issues, including "
                           \o str(Len(inactive_issues)) \o " with long inactivity.")
               ELSE Return("Found " \o str(Len(unresolved_issues)) \o " unresolved open issues.")

analyze_pull_requests(response, threads) ==
  LET data == fetch_data(response)
  IN  IF data.exc # "none" THEN Raise(data.exc)
      ELSE IF unusable(data) THEN Raise("TypeError")
      ELSE LET open_pulls == data.json
               merged(i) == truthy(open_pulls[i].merged_at)
               skipped == {i \in 1..Len(open_pulls) : merged(i)}
               stop == first_failure(open_pulls, threads, skipped)
               addressed(i) == any_comment_has("addressed", fetch_data(threads[i]).json)
               indices == [i \in 1..Len(open_pulls) |-> i]
               unaddressed(i) == ~merged(i) /\ ~addressed(i)
               unmerged_pulls == SelectSeq(indices, unaddressed)
           IN  IF stop # 0 THEN Raise(thread_exception(threads[stop]))
               ELSE IF unmerged_pulls = <<>> THEN Return("No unresolved open pull requests.")
               ELSE Return("Found " \o str(Len(unmerged_pulls)) \o " unresolved open pull requests.")

manifest_files == <<"package.json", "requirements.txt">>

\* responses[i] answers the fetch of manifest_files[i]; the fetched value is
\* never used, so a None from fetch_data counts as found.
check_dependencies(responses) ==
  Return([i \in 1..Len(manifest_files) |->
            IF fetch_data(responses[i]).exc = "HTTPError"
            THEN manifest_files[i] \o " is missing."
            ELSE manifest_files[i] \o " found and needs further analysis."])

\* check_security as it would be with the two count branches exchanged.
check_security_branches_exchanged(response) ==
  LET alerts == fetch_data(response)
  IN  IF alerts.exc = "HTTPError" THEN Return("Could not retrieve security vulnerabilities.")
      ELSE IF unusable(alerts) THEN Raise("TypeError")
      ELSE IF alerts.json.total_count # 0 THEN Return("No reported vulnerabilities.")
      ELSE Return("Found " \o str(alerts.json.total_count) \o " security vulnerabilities.")

check_security(response) ==
  LET alerts == fetch_data(response)
  IN  IF alerts.exc = "HTTPError" THEN Return("Could not retrieve security vulnerabilities.")
      ELSE IF unusable(alerts) THEN Raise("TypeError")
      ELSE IF alerts.json.total_count = 0 THEN Return("No reported vulnerabilities.")
      ELSE Return("Found " \o str(alerts.json.total_count) \o " security vulnerabilities.")

check_license(response) ==
  LET data == fetch_data(response)
  IN  IF data.exc = "HTTPError" THEN Return("License file is missing.")
      ELSE IF unusable(data) THEN Raise("TypeError")
      ELSE IF ~data.json.license.is_null
      THEN Return("License file is present with " \o data.json.license.name \o " license.")
      ELSE Return("License file is missing.")

\* The four existence probes ignore the fetched value.
check_contributing_guidelines(response) ==
  IF fetch_data(response).exc = "HTTPError"
  THEN Return("Contributing guidelines are missing.")
  ELSE Return("Contributing guidelines are present.")

check_issue_templates(response) ==
  IF fetch_data(response).exc = "HTTPError"
  THEN Return("Issue templates are missing.")
  ELSE Return("Issue templates are present.")

check_pull_request_templates(response) ==
  IF fetch_data(response).exc = "HTTPError"
  THEN Return("Pull request templates are missing.")
  ELSE Return("Pull request templates are present.")

check_changelog(response) ==
  IF fetch_data(response).exc = "HTTPError"
  THEN Return("Changelog is missing.")
  ELSE Return("Changelog is present.")

-----------------------------------------------------------------------------
(* Bounds and the inputs the environment can supply                        *)

\* The most open issues a single call of analyze_issues is given, and the
\* most open issues and open pull requests the audited repository has in a
\* whole run.
MaxIssues == 2
MaxRunIssues == 1
MaxRunPulls == 1

\* The alert counts the platform reports: none, one, several.
Counts == {0, 1, 3}

Tokens == {"ghp_A1"}
RepoNames == {"octo/demo"}

\* One status of each kind requests.get can hand back: the 200 the code tests
\* for, another 2xx, a 3xx that is not followed, and an error status (4xx and
\* 5xx are one case of raise_for_status).
Statuses == {200, 204, 304, 404}

\* The answers to one fetch: a 200 with one of the bodies, or another status.
\* The body of a response whose status is not 200 is never read; it is given
\* the shape of an unremarkable body of that endpoint.
Answers(bodies, unread) ==
  {Response(200, b) : b \in bodies} \cup {Response(c, unread) : c \in Statuses \ {200}}

\* The statuses the issue-creation endpoint answers a POST with.
PostStatuses == {201, 422}

\* README texts are built from fragments of 3k characters, so that the
\* base64 content of a text is the concatenation of its fragments' base64.
\* Each keyword is absent, present in lower case, or present in mixed case
\* inside other prose; a near miss of a keyword stands in for its absence.
Fragment ==
  [installation |-> <<"", "aW5zdGFsbGF0aW9u", "IyBJTlNUQUxMQVRJT04g", "SW5zdGFsbCBpdCEg">>,
   usage        |-> <<"", "dXNhZ2Ug", "VVNBR0Ug", "IyBVc2Ug">>,
   contributing |-> <<"", "Y29udHJpYnV0aW5n", "Q29udHJpYnV0aW5nLm1k", "Q29udHJpYnV0b3Jz">>,
   license      |-> <<"", "dW5saWNlbnNlZCAg", "TElDRU5TRTogTUlU", "TGljZW5jZTogTUlU">>,
   changelog    |-> <<"", "Y2hhbmdlbG9n", "Q2hhbmdlTG9nICAg", "Q2hhbmdlIExvZyAg">>]

\* Which fragment of each keyword a README uses, and in which of two orders.
ReadmeShapes == [pick : [DOMAIN Fragment -> 1..4], reversed : BOOLEAN]

readme_content(shape) ==
  LET part(k) == Fragment[essential_sections[k]][shape.pick[essential_sections[k]]]
  IN  IF shape.reversed
      THEN part(5) \o part(4) \o part(3) \o part(2) \o part(1)
      ELSE part(1) \o part(2) \o part(3) \o part(4) \o part(5)

Readmes == Answers({[content |-> readme_content(shape)] : shape \in ReadmeShapes},
                   [content |-> ""])

\* The READMEs of the whole-run specification: a complete one and one that
\* lacks exactly license and changelog.
RunReadmes ==
  Answers({[content |-> c] :
     c \in {"IyBJTlNUQUxMQVRJT04gVVNBR0UgQ29udHJpYnV0aW5nLm1kTElDRU5TRTogTUlUQ2hhbmdlTG9nICAg",
            "aW5zdGFsbGF0aW9udXNhZ2UgY29udHJpYnV0aW5nTGljZW5jZTogTUlUQ2hhbmdlIExvZyAg"}},
          [content |-> ""])

\* Timestamps in the platform's fixed ISO-8601 format, in chronological order.
Timestamps == <<"2023-12-31T23:59:59Z", "2024-01-05T10:00:00Z", "2024-01-10T09:00:00Z">>

\* Comment threads: empty, unrelated talk, the keyword in another case, and
\* the keyword inside a longer word.
Threads ==
  Answers({<<>>,
           <<[body |-> "Any news? This was ADDRESSED to nobody."]>>,
           <<[body |-> "Any news?"], [body |-> "This is RESOLVED now."]>>,
           <<[body |-> "still unresolved and unaddressed"]>>},
          <<>>)

\* An open issue together with the answer to the fetch of its comments.
IssueItems ==
  {[issue  |-> [created_at |-> c, updated_at |-> u],
    thread |-> t] : c \in {Timestamps[2], Timestamps[3]},
                    u \in {Timestamps[2], Timestamps[3]},
                    t \in Threads}

PullItems ==
  {[pull   |-> [merged_at |-> m],
    thread |-> t] : m \in {Null, Timestamps[1]}, t \in Threads}

Lists(items, max) == UNION {[1..n -> items] : n \in 0..max}

payload(list, field) == [i \in 1..Len(list) |-> list[i][field]]

threads_of(list) == [i \in 1..Len(list) |-> list[i].thread]

Alerts == Answers({[total_count |-> n] : n \in Counts}, [total_count |-> 0])

Licenses ==
  Answers({[license |-> [is_null |-> TRUE, name |-> Null]],
           [license |-> [is_null |-> FALSE, name |-> "MIT License"]]},
          [license |-> [is_null |-> TRUE, name |-> Null]])

\* The answers to an existence probe, whose body is never read.
Probes == Answers({Null}, Null)

NoResponse == Response(0, Null)

-----------------------------------------------------------------------------
(* State                                                                   *)

VARIABLES
  token, repo_name, base_url, headers,  \* the fields __init__ sets
  pc,          \* the statement of report_findings that runs next
  locals,      \* report_findings' local variables, Null until assigned
  report,      \* the report as printed, Null until printed
  calls,       \* the methods report_findings has called so far, in order
  received,    \* the status codes the latest statement got from the platform
  sent,        \* the (method, headers) pairs of the requests sent so far
  tickets,     \* the (title, body) pairs posted so far, in order
  exception,   \* the exception that ended the run, "none" otherwise
  readme_response, alerts_response,  \* what the README and alert fetches got
  call, ret    \* a single method call under test and what it left behind

handle == <<token, repo_name, base_url, headers>>

run == <<pc, locals, report, calls, received, sent, tickets, exception,
         readme_response, alerts_response>>

vars == <<handle, run, call, ret>>

Pending == [exc |-> "pending", value |-> Null]

\* GitHubAnalyzer.__init__
init(t, r) ==
  /\ token = t
  /\ repo_name = r
  /\ base_url = "https://api.github.com/repos/" \o r
  /\ headers = [k \in {"Authorization"} |-> "token " \o t]

\* An assignment of a fresh one-entry dict in place of dict.update.
dict_replace(d, key, value) == [k \in {key} |-> value]

\* dict.update with one key
dict_update(d, key, value) ==
  [k \in DOMAIN d \cup {key} |-> IF k = key THEN value ELSE d[k]]

status_names ==
  {"documentation_status", "issues_status", "pulls_status", "dependencies_status",
   "security_status", "license_status", "contributing_status",
   "issue_templates_status", "pr_templates_status", "changelog_status"}

\* The main block: the analyzer is constructed and report_findings is about
\* to run its first statement.
Init ==
  /\ \E t \in Tokens, r \in RepoNames : init(t, r)
  /\ pc = "check_documentation"
  /\ locals = [n \in status_names |-> Null]
  /\ report = Null
  /\ calls = <<>>
  /\ received = <<>>
  /\ sent = {}
  /\ tickets = <<>>
  /\ exception = "none"
  /\ readme_response = NoResponse
  /\ alerts_response = NoResponse
  /\ call = Null
  /\ ret = Pending

-----------------------------------------------------------------------------
(* report_findings, statement by statement                                 *)

\* The ten assignments with the security check ahead of the dependency check.
check_order_security_first ==
  <<"check_documentation", "analyze_issues", "analyze_pull_requests",
    "check_security", "check_dependencies", "check_license",
    "check_contributing_guidelines", "check_issue_templates",
    "check_pull_request_templates", "check_changelog">>

\* The order of the ten assignments that open report_findings.
check_order ==
  <<"check_documentation", "analyze_issues", "analyze_pull_requests",
    "check_dependencies", "check_security", "check_license",
    "check_contributing_guidelines", "check_issue_templates",
    "check_pull_request_templates", "check_changelog">>

\* The order of the nine if statements that close it.
predicate_order ==
  <<"if_documentation", "if_issues", "if_dependencies", "if_security", "if_license",
    "if_contributing", "if_issue_templates", "if_pr_templates", "if_changelog">>

statements == check_order \o <<"print_report">> \o predicate_order \o <<"done">>

\* The statement that follows a statement which did not raise.
after(statement) ==
  statements[1 + CHOOSE i \in 1..(Len(statements) - 1) : statements[i] = statement]

\* requests.get(url, headers=self.headers), n times
get_requests(n) == IF n = 0 THEN {} ELSE {[method |-> "GET", headers |-> headers]}

\* One assignment `x_status = self.method()`: the method sends its requests;
\* its value is stored and the next statement follows, or its exception
\* leaves report_findings and ends the run.
assign(method, name, outcome, statuses) ==
  /\ pc = method
  /\ calls' = Append(calls, method)
  /\ sent' = sent \cup get_requests(Len(statuses))
  /\ received' = statuses
  /\ IF outcome.exc = "none"
     THEN /\ locals' = [locals EXCEPT ![name] = outcome.value]
          /\ pc' = after(method)
          /\ exception' = "none"
     ELSE /\ locals' = locals
          /\ pc' = "crashed"
          /\ exception' = outcome.exc
  /\ UNCHANGED <<handle, report, tickets, call, ret>>

\* The responses a walk over a fetched list receives: the list's, then one
\* per item whose thread is fetched, up to and including the first failure.
walk_statuses(response, threads, skipped) ==
  IF response.status_code # 200 THEN <<response.status_code>>
  ELSE LET stop == first_failure(response.json, threads, skipped)
           last == IF stop = 0 THEN Len(response.json) ELSE stop
           fetched(i) == i \notin skipped
           walked == SelectSeq([i \in 1..last |-> i], fetched)
       IN  <<200>> \o [k \in 1..Len(walked) |-> threads[walked[k]].status_code]

documentation_status ==
  /\ pc = "check_documentation"
  /\ \E response \in RunReadmes :
       /\ assign("check_documentation", "documentation_status",
                 check_documentation(response), <<response.status_code>>)
       /\ readme_response' = response
  /\ UNCHANGED alerts_response

issues_status ==
  /\ pc = "analyze_issues"
  /\ \E list \in Lists(IssueItems, MaxRunIssues), status_code \in Statuses :
       LET response == Response(status_code, payload(list, "issue"))
       IN  /\ status_code # 200 => list = <<>>
           /\ assign("analyze_issues", "issues_status",
                     analyze_issues(response, threads_of(list)),
                     walk_statuses(response, threads_of(list), {}))
  /\ UNCHANGED <<readme_response, alerts_response>>

pulls_status ==
  /\ pc = "analyze_pull_requests"
  /\ \E list \in Lists(PullItems, MaxRunPulls), status_code \in Statuses :
       LET response == Response(status_code, payload(list, "pull"))
           merged == {i \in 1..Len(list) : truthy(list[i].pull.merged_at)}
       IN  /\ status_code # 200 => list = <<>>
           /\ assign("analyze_pull_requests", "pulls_status",
                     analyze_pull_requests(response, threads_of(list)),
                     walk_statuses(response, threads_of(list), merged))
  /\ UNCHANGED <<readme_response, alerts_response>>

dependencies_status ==
  /\ pc = "check_dependencies"
  /\ \E responses \in [1..Len(manifest_files) -> Probes] :
       assign("check_dependencies", "dependencies_status",
              check_dependencies(responses),
              [i \in 1..Len(responses) |-> responses[i].status_code])
  /\ UNCHANGED <<readme_response, alerts_response>>

security_status ==
  /\ pc = "check_security"
  /\ \E response \in Alerts :
       /\ assign("check_security", "security_status",
                 check_security(response), <<response.status_code>>)
       /\ alerts_response' = response
  /\ UNCHANGED readme_response

license_status ==
  /\ pc = "check_license"
  /\ \E response \in Licenses :
       assign("check_license", "license_status",
              check_license(response), <<response.status_code>>)
  /\ UNCHANGED <<readme_response, alerts_response>>

contributing_status ==
  /\ pc = "check_contributing_guidelines"
  /\ \E response \in Probes :
       assign("check_contributing_guidelines", "contributing_status",
              check_contributing_guidelines(response), <<response.status_code>>)
  /\ UNCHANGED <<readme_response, alerts_response>>

issue_templates_status ==
  /\ pc = "check_issue_templates"
  /\ \E response \in Probes :
       assign("check_issue_templates", "issue_templates_status",
              check_issue_templates(response), <<response.status_code>>)
  /\ UNCHANGED <<readme_response, alerts_response>>

pr_templates_status ==
  /\ pc = "check_pull_request_templates"
  /\ \E response \in Probes :
       assign("check_pull_request_templates", "pr_templates_status",
              check_pull_request_templates(response), <<response.status_code>>)
  /\ UNCHANGED <<readme_response, alerts_response>>

changelog_status ==
  /\ pc = "check_changelog"
  /\ \E response \in Probes :
       assign("check_changelog", "changelog_status",
              check_changelog(response), <<response.status_code>>)
  /\ UNCHANGED <<readme_response, alerts_response>>

\* The f-string of lines 149-161, without its indentation.
render_report(name, l) ==
  "Repository Analysis Report for " \o name \o ":"
  \o " 1. Documentation: " \o l.documentation_status
  \o " 2. Open Issues: " \o l.issues_status
  \o " 3. Open Pull Requests: " \o l.pulls_status
  \o " 4. Dependencies Status: " \o join(", ", l.dependencies_status)
  \o " 5. Security Status: " \o l.security_status
  \o " 6. License: " \o l.license_status
  \o " 7. Contributing Guidelines: " \o l.contributing_status
  \o " 8. Issue Templates: " \o l.issue_templates_status
  \o " 9. Pull Request Templates: " \o l.pr_templates_status
  \o " 10. Changelog: " \o l.changelog_status

print_report ==
  /\ pc = "print_report"
  /\ report' = render_report(repo_name, locals)
  /\ pc' = after("print_report")
  /\ received' = <<>>
  /\ UNCHANGED <<handle, locals, calls, sent, tickets, exception,
                 readme_response, alerts_response, call, ret>>

\* GitHubAnalyzer.create_issue: the Accept header is written into the shared
\* headers, the ticket is posted with them, and one line is printed whatever
\* the answer (a confirmation on 201, a diagnostic otherwise); nothing is
\* raised.
create_issue(title, body, response) ==
  /\ headers' = dict_update(headers, "Accept", "application/vnd.github.v3+json")
  /\ sent' = sent \cup {[method |-> "POST", headers |-> headers']}
  /\ tickets' = Append(tickets, [title |-> title, body |-> body])
  /\ received' = <<response.status_code>>
  /\ UNCHANGED <<token, repo_name, base_url>>

\* The if statement as it would be if create_issue ended with
\* response.raise_for_status(): a refused ticket ends the run.
if_create_issue_raising(statement, condition, title, body) ==
  /\ pc = statement
  /\ IF condition
     THEN /\ \E status_code \in PostStatuses :
               /\ create_issue(title, body, Response(status_code, Null))
               /\ pc' = IF status_code = 201 THEN after(statement) ELSE "crashed"
               /\ exception' = IF status_code = 201 THEN exception ELSE "HTTPError"
          /\ calls' = Append(calls, "create_issue")
     ELSE /\ pc' = after(statement)
          /\ received' = <<>>
          /\ UNCHANGED <<handle, sent, tickets, calls, exception>>
  /\ UNCHANGED <<locals, report, readme_response, alerts_response, call, ret>>

\* One statement `if condition: self.create_issue(title, body)`.
if_create_issue(statement, condition, title, body) ==
  /\ pc = statement
  /\ pc' = after(statement)
  /\ IF condition
     THEN /\ \E status_code \in PostStatuses :
               create_issue(title, body, Response(status_code, Null))
          /\ calls' = Append(calls, "create_issue")
     ELSE /\ received' = <<>>
          /\ UNCHANGED <<handle, sent, tickets, calls>>
  /\ UNCHANGED <<locals, report, exception, readme_response, alerts_response, call, ret>>

if_documentation ==
  /\ pc = "if_documentation"
  /\ if_create_issue("if_documentation",
                     contains("missing", lower(locals.documentation_status)),
                     "Missing README.md or essential sections", locals.documentation_status)

if_issues ==
  /\ pc = "if_issues"
  /\ if_create_issue("if_issues",
                     contains("long inactivity", lower(locals.issues_status)),
                     "Unresolved issues with long inactivity", locals.issues_status)

if_dependencies ==
  /\ pc = "if_dependencies"
  /\ if_create_issue("if_dependencies",
                     \E i \in 1..Len(locals.dependencies_status) :
                        contains("missing", lower(locals.dependencies_status[i])),
                     "Missing dependency files", join(", ", locals.dependencies_status))

if_security ==
  /\ pc = "if_security"
  /\ if_create_issue("if_security",
                     contains("security vulnerabilities", lower(locals.security_status)),
                     "Security vulnerabilities detected", locals.security_status)

if_license ==
  /\ pc = "if_license"
  /\ if_create_issue("if_license",
                     contains("missing", lower(locals.license_status)),
                     "License file missing", locals.license_status)

if_contributing ==
  /\ pc = "if_contributing"
  /\ if_create_issue("if_contributing",
                     contains("missing", lower(locals.contributing_status)),
                     "Contributing guidelines missing", locals.contributing_status)

if_issue_templates ==
  /\ pc = "if_issue_templates"
  /\ if_create_issue("if_issue_templates",
                     contains("missing", lower(locals.issue_templates_status)),
                     "Issue templates missing", locals.issue_templates_status)

if_pr_templates ==
  /\ pc = "if_pr_templates"
  /\ if_create_issue("if_pr_templates",
                     contains("missing", lower(locals.pr_templates_status)),
                     "Pull request templates missing", locals.pr_templates_status)

if_changelog ==
  /\ pc = "if_changelog"
  /\ if_create_issue("if_changelog",
                     contains("missing", lower(locals.changelog_status)),
                     "Changelog missing", locals.changelog_status)

Next ==
  \/ documentation_status
  \/ issues_status
  \/ pulls_status
  \/ dependencies_status
  \/ security_status
  \/ license_status
  \/ contributing_status
  \/ issue_templates_status
  \/ pr_templates_status
  \/ changelog_status
  \/ print_report
  \/ if_documentation
  \/ if_issues
  \/ if_dependencies
  \/ if_security
  \/ if_license
  \/ if_contributing
  \/ if_issue_templates
  \/ if_pr_templates
  \/ if_changelog

Spec == Init /\ [][Next]_vars

-----------------------------------------------------------------------------
(* Single calls of the checks on a freshly constructed analyzer            *)

InitChecks ==
  /\ \E t \in Tokens, r \in RepoNames : init(t, r)
  /\ pc = "idle"
  /\ locals = [n \in status_names |-> Null]
  /\ report = Null
  /\ calls = <<>>
  /\ received = <<>>
  /\ sent = {}
  /\ tickets = <<>>
  /\ exception = "none"
  /\ readme_response = NoResponse
  /\ alerts_response = NoResponse
  /\ ret = Pending
  /\ \/ \E response \in Readmes :
          call = [method |-> "check_documentation", response |-> response]
     \/ \E list \in Lists(IssueItems, MaxIssues), status_code \in Statuses :
          /\ status_code # 200 => list = <<>>
          /\ call = [method |-> "analyze_issues",
                     response |-> Response(status_code, payload(list, "issue")),
                     threads |-> threads_of(list)]
     \/ \E responses \in [1..Len(manifest_files) -> Probes] :
          call = [method |-> "check_dependencies", responses |-> responses]
     \/ \E response \in Alerts :
          call = [method |-> "check_security", response |-> response]

\* The method under test runs to its end.
returns(method, outcome) ==
  /\ call.method = method
  /\ ret.exc = "pending"
  /\ ret' = outcome
  /\ UNCHANGED <<handle, run, call>>

call_check_documentation ==
  /\ call.method = "check_documentation"
  /\ returns("check_documentation", check_documentation(call.response))

call_analyze_issues ==
  /\ call.method = "analyze_issues"
  /\ returns("analyze_issues", analyze_issues(call.response, call.threads))

call_check_dependencies ==
  /\ call.method = "check_dependencies"
  /\ returns("check_dependencies", check_dependencies(call.responses))

call_check_security ==
  /\ call.method = "check_security"
  /\ returns("check_security", check_security(call.response))

NextChecks ==
  \/ call_check_documentation
  \/ call_analyze_issues
  \/ call_check_dependencies
  \/ call_check_security

SpecChecks == InitChecks /\ [][NextChecks]_vars

-----------------------------------------------------------------------------
(* Vocabulary of the properties                                            *)

Last(seq) == seq[Len(seq)]

IsPrefix(a, b) == Len(a) <= Len(b) /\ SubSeq(b, 1, Len(a)) = a

\* The positions of the tickets posted under a title.
posted(title) == {i \in 1..Len(tickets) : tickets[i].title = title}

\* An HTTP status outside 200..299.
non_success(status_code) == status_code < 200 \/ status_code > 299

Capitals == "ABCDEFGHIJKLMNOPQRSTUVWXYZ"

Smalls == "abcdefghijklmnopqrstuvwxyz"

\* Each character with the capital letters replaced by their small letters.
Folded ==
  [c \in AsciiChars |->
     IF \E i \in 1..26 : CharAt(Capitals, i) = c
     THEN CharAt(Smalls, CHOOSE i \in 1..26 : CharAt(Capitals, i) = c)
     ELSE c]

\* Two characters equal up to the case of a letter.
same_ignoring_case(a, b) == a = b \/ Folded[a] = Folded[b]

\* word occurs in text as a contiguous run of characters, up to letter case.
occurs_ignoring_case(word, text) ==
  \E i \in 1..(Len(text) - Len(word) + 1) :
     \A j \in 1..Len(word) : same_ignoring_case(CharAt(text, i + j - 1), CharAt(word, j))

\* The position of a timestamp in chronological order.
time_of(timestamp) == CHOOSE i \in 1..Len(Timestamps) : Timestamps[i] = timestamp

precedes(a, b) == time_of(a) < time_of(b)

ReadmeTitle == "Missing README.md or essential sections"

SecurityTitle == "Security vulnerabilities detected"

-----------------------------------------------------------------------------
(* Properties of the whole run                                             *)

\* C1: when the README fetch is answered 404, check_documentation returns
\* "README.md file is missing." and a completed run has posted exactly one
\* ticket titled "Missing README.md or essential sections", whose body is that
\* message, whatever the other checks found.
C1_MissingReadmeTicket ==
  readme_response.status_code = 404 =>
    /\ locals.documentation_status = "README.md file is missing."
    /\ pc = "done" =>
         /\ Cardinality(posted(ReadmeTitle)) = 1
         /\ \A i \in posted(ReadmeTitle) : tickets[i].body = "README.md file is missing."

C1_Witness ==
  /\ pc = "done"
  /\ readme_response.status_code = 404
  /\ locals.changelog_status = "Changelog is present."
  /\ Len(tickets) >= 2

\* C2: when the alert summary is fetched with total_count = n, the security
\* status is "Found n security vulnerabilities." for n # 0 and a completed run
\* has posted a ticket titled "Security vulnerabilities detected" with exactly
\* that body; for n = 0 the status is "No reported vulnerabilities." and no
\* such ticket is posted.
C2_SecurityCountTicket ==
  alerts_response.status_code = 200 =>
    LET n == alerts_response.json.total_count
    IN  IF n # 0
        THEN /\ locals.security_status = "Found " \o ToString(n) \o " security vulnerabilities."
             /\ n = 3 => locals.security_status = "Found 3 security vulnerabilities."
             /\ pc = "done" =>
                  /\ posted(SecurityTitle) # {}
                  /\ \A i \in posted(SecurityTitle) : tickets[i].body = locals.security_status
        ELSE /\ locals.security_status = "No reported vulnerabilities."
             /\ posted(SecurityTitle) = {}

C2_Witness ==
  /\ pc = "done"
  /\ alerts_response.status_code = 200
  /\ alerts_response.json.total_count = 3
  /\ \E i \in posted(SecurityTitle) : tickets[i].body = "Found 3 security vulnerabilities."

ExpectedChecks ==
  <<"check_documentation", "analyze_issues", "analyze_pull_requests",
    "check_dependencies", "check_security", "check_license",
    "check_contributing_guidelines", "check_issue_templates",
    "check_pull_request_templates", "check_changelog">>

ExpectedTitles ==
  <<"Missing README.md or essential sections", "Unresolved issues with long inactivity",
    "Missing dependency files", "Security vulnerabilities detected", "License file missing",
    "Contributing guidelines missing", "Issue templates missing",
    "Pull request templates missing", "Changelog missing">>

title_rank(title) == CHOOSE k \in 1..Len(ExpectedTitles) : ExpectedTitles[k] = title

\* C6: the checks are called in the fixed order documentation, issues, pull
\* requests, dependencies, security, license, contributing, issue templates,
\* PR templates, changelog; no ticket is posted before the changelog check
\* has returned and the report has been printed; and the tickets are posted
\* in the fixed order of the predicates.
C6_FixedOrder ==
  /\ LET checks == SelectSeq(calls, LAMBDA m : m # "create_issue")
     IN  IsPrefix(checks, ExpectedChecks)
  /\ \A i \in 1..Len(calls) :
        calls[i] = "create_issue" => i > 10 /\ SubSeq(calls, 1, 10) = ExpectedChecks
  /\ tickets # <<>> =>
        /\ report # Null
        /\ locals.changelog_status # Null
        /\ exception = "none"
  /\ \A i \in 1..Len(tickets) : tickets[i].title \in {ExpectedTitles[k] : k \in 1..9}
  /\ \A i, j \in 1..Len(tickets) :
        i < j => title_rank(tickets[i].title) < title_rank(tickets[j].title)

C6_Witness ==
  /\ pc = "done"
  /\ Len(tickets) = 9

\* C7: a failure status answered to the fetch of the open issues, the open
\* pull requests or one of their comment threads ends the run there, with no
\* report and no ticket, while a failure status answered to a fetch of any
\* other check never ends the run.
C7_OnlyListChecksAbort ==
  (/\ calls # <<>>
   /\ Last(calls) # "create_issue"
   /\ \E i \in 1..Len(received) : non_success(received[i]))
  => IF Last(calls) \in {"analyze_issues", "analyze_pull_requests"}
     THEN pc = "crashed" /\ report = Null /\ tickets = <<>>
     ELSE pc # "crashed"

\* The text a predicate tests and the word it looks for, by ticket title.
predicate_matches(k) ==
  CASE k = 1 -> occurs_ignoring_case("missing", locals.documentation_status)
    [] k = 2 -> occurs_ignoring_case("long inactivity", locals.issues_status)
    [] k = 3 -> \E i \in 1..Len(locals.dependencies_status) :
                   occurs_ignoring_case("missing", locals.dependencies_status[i])
    [] k = 4 -> occurs_ignoring_case("security vulnerabilities", locals.security_status)
    [] k = 5 -> occurs_ignoring_case("missing", locals.license_status)
    [] k = 6 -> occurs_ignoring_case("missing", locals.contributing_status)
    [] k = 7 -> occurs_ignoring_case("missing", locals.issue_templates_status)
    [] k = 8 -> occurs_ignoring_case("missing", locals.pr_templates_status)
    [] k = 9 -> occurs_ignoring_case("missing", locals.changelog_status)

\* C8: in a completed run every predicate that matches its status text has
\* posted exactly one ticket and every other predicate none, whatever the
\* platform answered to the posts; a refused post raises nothing and ends
\* nothing.
C8_OneTicketPerMatch ==
  /\ pc = "done" =>
       \A k \in 1..9 :
          Cardinality(posted(ExpectedTitles[k])) = IF predicate_matches(k) THEN 1 ELSE 0
  /\ tickets # <<>> => pc # "crashed" /\ exception = "none"
  /\ pc = "crashed" => calls # <<>> /\ Last(calls) # "create_issue"

C8_Witness ==
  /\ pc = "done"
  /\ received = <<422>>
  /\ Len(tickets) >= 2
  /\ Len(tickets) < 9

ConstructorHeaders == [k \in {"Authorization"} |-> "token " \o token]

\* C9 as stated: the headers never differ from those the constructor built,
\* and every request is sent with them.
C9_HeadersNeverChange ==
  /\ headers = ConstructorHeaders
  /\ \A request \in sent : request.headers = ConstructorHeaders

\* C9 as amended: token, repository name, base URL and the Authorization
\* header never change; every GET is sent with exactly the constructor's
\* headers; create_issue adds an Accept header, so every POST is sent with
\* the constructor's headers plus Accept.
C9_HandleKeptButAccept ==
  /\ [][/\ token' = token
        /\ repo_name' = repo_name
        /\ base_url' = base_url
        /\ "Authorization" \in DOMAIN headers'
        /\ headers'["Authorization"] = headers["Authorization"]]_vars
  /\ [](\A request \in sent :
          IF request.method = "GET"
          THEN request.headers = ConstructorHeaders
          ELSE request.headers =
                 [k \in {"Authorization", "Accept"} |->
                    IF k = "Accept" THEN "application/vnd.github.v3+json"
                    ELSE "token " \o token])

C9_Witness ==
  /\ pc = "done"
  /\ \E request \in sent : request.method = "POST"
  /\ \E request \in sent : request.method = "GET"
  /\ DOMAIN headers = {"Authorization", "Accept"}

\* C10: in a completed run a failed fetch of the alert summary gives the
\* status "Could not retrieve security vulnerabilities." and no ticket titled
\* "Security vulnerabilities detected"; such a ticket is posted only when the
\* summary was fetched and its count is not zero.
C10_NoTicketWhenNotRetrieved ==
  pc = "done" =>
    /\ non_success(alerts_response.status_code) =>
         /\ locals.security_status = "Could not retrieve security vulnerabilities."
         /\ posted(SecurityTitle) = {}
    /\ posted(SecurityTitle) # {} =>
         /\ alerts_response.status_code = 200
         /\ alerts_response.json.total_count # 0

-----------------------------------------------------------------------------
(* Properties of single checks                                             *)

returned(method) == call.method = method /\ ret.exc = "none"

policy_order == <<"installation", "usage", "contributing", "license", "changelog">>

\* C3: a fetched README is classified complete exactly when all five keywords
\* occur in it up to letter case; otherwise the result names exactly the
\* keywords that do not occur, in the order installation, usage, contributing,
\* license, changelog.
C3_ReadmeClassification ==
  (returned("check_documentation") /\ call.response.status_code = 200) =>
    LET text == b64decode(call.response.json.content)
        lacking(word) == ~occurs_ignoring_case(word, text)
        names == SelectSeq(policy_order, lacking)
    IN  /\ (ret.value = "README.md is present and contains all essential sections.")
             <=> (names = <<>>)
        /\ names # <<>> =>
             ret.value = "README.md is present but missing sections: "
                         \o join(", ", names) \o "."
        /\ names = <<"license", "changelog">> =>
             ret.value = "README.md is present but missing sections: license, changelog."

C3_Witness ==
  /\ returned("check_documentation")
  /\ call.response.status_code = 200
  /\ ret.value = "README.md is present but missing sections: license, changelog."
  /\ ~contains("installation", b64decode(call.response.json.content))

\* C4: each manifest probe of check_dependencies yields "<file> is missing."
\* for a status outside 2xx and "<file> found and needs further analysis." for
\* a 2xx status, and the check has no other outcome.
C4_ManifestByStatus ==
  (call.method = "check_dependencies" /\ ret.exc # "pending") =>
    /\ ret.exc = "none"
    /\ Len(ret.value) = 2
    /\ \A i \in 1..2 :
          LET file == <<"package.json", "requirements.txt">>[i]
          IN  ret.value[i] = IF non_success(call.responses[i].status_code)
                             THEN file \o " is missing."
                             ELSE file \o " found and needs further analysis."

\* The open issues of the call whose update precedes their creation, and
\* those of them no comment of which contains "resolved" up to letter case.
backdated == {i \in 1..Len(call.threads) :
                precedes(call.response.json[i].updated_at, call.response.json[i].created_at)}

unresolved_backdated ==
  {i \in backdated :
     \A k \in 1..Len(call.threads[i].json) :
        ~occurs_ignoring_case("resolved", call.threads[i].json[k].body)}

reports_inactive(count) ==
  contains("including " \o ToString(count) \o " with long inactivity.", ret.value)

\* C5 as stated: every open issue whose updated_at precedes its created_at is
\* counted in the inactive count M of the result.
C5_EveryBackdatedCounted ==
  (returned("analyze_issues") /\ backdated # {}) =>
    \E M \in Cardinality(backdated)..Len(call.threads) : reports_inactive(M)

\* C5 as amended: every unresolved open issue whose updated_at precedes its
\* created_at is counted in the inactive count M of the result, whatever the
\* resolution status of the other open issues; resolved issues are not
\* counted.
C5_UnresolvedBackdatedCounted ==
  (returned("analyze_issues") /\ unresolved_backdated # {}) =>
    reports_inactive(Cardinality(unresolved_backdated))

C5_Witness ==
  /\ returned("analyze_issues")
  /\ Len(call.threads) = 2
  /\ Cardinality(backdated) = 2
  /\ Cardinality(unresolved_backdated) = 1
  /\ ret.value = "Found 1 unresolved open issues, including 1 with long inactivity."

=============================================================================
